---- MODULE Spec2Model ----
(***************************************************************************)
(* Model of lambda_cli/scheduler.py: the InstanceWatcher, which polls the  *)
(* Lambda Labs API for capacity of one (instance type, region) pair and    *)
(* launches an instance once capacity is listed.                           *)
(*                                                                         *)
(* Python values are encoded as follows.                                   *)
(*   None / a value x      the sequences << >> and << x >>                 *)
(*   dict                  a function whose DOMAIN is the set of its keys  *)
(*   list                  a sequence                                      *)
(*   call f() -> v         [raised |-> FALSE, value |-> v, ...]            *)
(*   call f() raises e     [raised |-> TRUE, exc |-> e, ...]               *)
(* The provider (LambdaLabsAPI) is the environment: each poll draws its    *)
(* answer to list_instance_types and to launch_instance from the sets      *)
(* QueryAnswers and LaunchAnswers.                                         *)
(***************************************************************************)
EXTENDS Integers, Sequences, FiniteSets, TLC

\* ---------------------------------------------------------------- bounds
MaxPolls == 2
MaxIds == 2
MaxQuantity == 1
\* the watch session: largest --timeout in minutes, longest time one poll_once
\* call takes in seconds, cap on the polls of one session
MaxTimeout == 1
MaxPollSeconds == 1
MaxWatchPolls == 4

\* ------------------------------------------------------- Python encodings
None == << >>
Some(x) == << x >>

EmptyDict == [k \in {} |-> None]

\* d.get(k): None when the key is missing, the value (wrapped) otherwise
DictLookup(d, k) == IF k \in DOMAIN d THEN Some(d[k]) ELSE None

\* d.get(k, default)
DictGet(d, k, default) == IF k \in DOMAIN d THEN d[k] ELSE default

Return(v, calls) == [raised |-> FALSE, value |-> v, exc |-> None, calls |-> calls]
Raise(e, calls) == [raised |-> TRUE, value |-> None, exc |-> e, calls |-> calls]

\* ------------------------------------------------------------ input sets
InstanceTypes == {"gpu_1x_a10", "gpu_8x_h100"}
AllRegions == <<"us-east-1", "us-west-1">>
Regions == {AllRegions[i] : i \in DOMAIN AllRegions}
Messages == {"timeout", "capacity race"}
SshKeyLists == {<< >>, <<"key-a">>}
\* the optional arguments file_system_names and instance_name: both left out, both given
OptionalArgs == {<<None, None>>, <<Some(<<"fs-a">>), Some("box")>>}
Quantities == 0..MaxQuantity
\* the LambdaLabsAPI client object the watcher is given
ApiClient == "LambdaLabsAPI"
AllIds == <<"i-001", "i-002", "i-003", "i-004">>
IdLists == {SubSeq(AllIds, 1, n) : n \in 0..MaxIds}

\* a region entry of regions_with_capacity_available
RegionEntry(r) == [name |-> r]

\* the capacity lists the provider may report for one instance type
RegionLists ==
    {[k \in 1..(j - i + 1) |-> RegionEntry(AllRegions[i + k - 1])] :
         i \in DOMAIN AllRegions, j \in 0..Len(AllRegions)}

TypeDatas ==
    {EmptyDict} \cup {[regions_with_capacity_available |-> rs] : rs \in RegionLists}

TypeMaps == UNION {[S -> TypeDatas] : S \in SUBSET InstanceTypes}

\* LambdaLabsAPIError carrying message m
LambdaLabsAPIError(m) == [type |-> "LambdaLabsAPIError", msg |-> m]

\* str(e)
Str(e) == e.msg

\* what api.list_instance_types() may do
QueryAnswers ==
    {[raises |-> TRUE, exc |-> LambdaLabsAPIError(m), response |-> EmptyDict] : m \in Messages}
    \cup {[raises |-> FALSE, exc |-> None, response |-> EmptyDict]}
    \cup {[raises |-> FALSE, exc |-> None, response |-> [data |-> tm]] : tm \in TypeMaps}

\* what api.launch_instance(...) may do
LaunchAnswers ==
    {[raises |-> TRUE, exc |-> LambdaLabsAPIError(m), response |-> EmptyDict] : m \in Messages}
    \cup {[raises |-> FALSE, exc |-> None, response |-> EmptyDict]}
    \cup {[raises |-> FALSE, exc |-> None, response |-> [data |-> EmptyDict]]}
    \cup {[raises |-> FALSE, exc |-> None, response |-> [data |-> [instance_ids |-> ids]]] :
              ids \in IdLists}

\* ------------------------------------------------------------- the code
\* variant of PollResult: the fields available and launched exchanged
PollResult_swapped(available, launched, instance_ids, error) ==
    [available |-> launched, launched |-> available,
     instance_ids |-> instance_ids, error |-> error]

\* PollResult(available=False, launched=False, instance_ids=None, error=None)
PollResult(available, launched, instance_ids, error) ==
    [available |-> available, launched |-> launched,
     instance_ids |-> instance_ids, error |-> error]

\* variant of __init__: the counter starts at 1
InstanceWatcher_counts_from_one(api, instance_type, region, ssh_key_names, file_system_names, quantity, instance_name) ==
    [api |-> api,
     instance_type |-> instance_type,
     region |-> region,
     ssh_key_names |-> ssh_key_names,
     file_system_names |-> file_system_names,
     quantity |-> quantity,
     instance_name |-> instance_name,
     poll_count |-> 1]

\* InstanceWatcher.__init__
InstanceWatcher(api, instance_type, region, ssh_key_names, file_system_names, quantity, instance_name) ==
    [api |-> api,
     instance_type |-> instance_type,
     region |-> region,
     ssh_key_names |-> ssh_key_names,
     file_system_names |-> file_system_names,
     quantity |-> quantity,
     instance_name |-> instance_name,
     poll_count |-> 0]

\* the provider calls a poll makes, as the provider records them
ListCall == [op |-> "list_instance_types", args |-> EmptyDict]
LaunchCall(w) ==
    [op |-> "launch_instance",
     args |-> [region_name |-> w.region,
               instance_type_name |-> w.instance_type,
               ssh_key_names |-> w.ssh_key_names,
               file_system_names |-> w.file_system_names,
               quantity |-> w.quantity,
               name |-> w.instance_name]]

\* variant of has_capacity: any region with capacity counts
has_capacity_any_region(w, response) ==
    LET instance_types == DictGet(response, "data", EmptyDict)
        type_data == DictLookup(instance_types, w.instance_type)
    IN IF type_data = None THEN FALSE
       ELSE LET regions == DictGet(type_data[1], "regions_with_capacity_available", << >>)
            IN Len(regions) > 0

\* variant of has_capacity: the region comparison inverted
has_capacity_inverted(w, response) ==
    LET instance_types == DictGet(response, "data", EmptyDict)
        type_data == DictLookup(instance_types, w.instance_type)
    IN IF type_data = None THEN FALSE
       ELSE LET regions == DictGet(type_data[1], "regions_with_capacity_available", << >>)
            IN \E i \in DOMAIN regions : DictLookup(regions[i], "name") # Some(w.region)

\* variant of has_capacity: only the first listed region is looked at
has_capacity_first_region(w, response) ==
    LET instance_types == DictGet(response, "data", EmptyDict)
        type_data == DictLookup(instance_types, w.instance_type)
    IN IF type_data = None THEN FALSE
       ELSE LET regions == DictGet(type_data[1], "regions_with_capacity_available", << >>)
            IN Len(regions) > 0 /\ DictLookup(regions[1], "name") = Some(w.region)

\* InstanceWatcher.check_availability, after the provider's response arrived:
\* the target region is among regions_with_capacity_available of the target type
has_capacity(w, response) ==
    LET instance_types == DictGet(response, "data", EmptyDict)
        type_data == DictLookup(instance_types, w.instance_type)
    IN IF type_data = None THEN FALSE
       ELSE LET regions == DictGet(type_data[1], "regions_with_capacity_available", << >>)
            IN \E i \in DOMAIN regions : DictLookup(regions[i], "name") = Some(w.region)

\* variant of check_availability: a provider error is taken for "no capacity"
check_availability_swallow(w, q) ==
    IF q.raises THEN Return(FALSE, <<ListCall>>)
    ELSE Return(has_capacity(w, q.response), <<ListCall>>)

\* InstanceWatcher.check_availability: the provider's error is not caught here
check_availability(w, q) ==
    IF q.raises THEN Raise(q.exc, <<ListCall>>)
    ELSE Return(has_capacity(w, q.response), <<ListCall>>)

\* variant of attempt_launch: the provider's error is not caught
attempt_launch_nocatch(w, l) ==
    IF l.raises THEN Raise(l.exc, <<LaunchCall(w)>>)
    ELSE Return(Some(l.response), <<LaunchCall(w)>>)

\* variant of attempt_launch: an empty response is reported as a failure too
attempt_launch_falsy(w, l) ==
    IF l.raises \/ DOMAIN l.response = {} THEN Return(None, <<LaunchCall(w)>>)
    ELSE Return(Some(l.response), <<LaunchCall(w)>>)

LaunchFailedMessage == "Instance was available but launch failed"

\* variant of attempt_launch: a failed launch is tried a second time
attempt_launch_retry(w, l) ==
    IF l.raises THEN Return(None, <<LaunchCall(w), LaunchCall(w)>>)
    ELSE Return(Some(l.response), <<LaunchCall(w)>>)

\* InstanceWatcher.attempt_launch: the provider's error is caught, None returned
attempt_launch(w, l) ==
    IF l.raises THEN Return(None, <<LaunchCall(w)>>)
    ELSE Return(Some(l.response), <<LaunchCall(w)>>)


\* variant of count_poll: the poll is not counted
count_poll_skipped(w) == w

\* InstanceWatcher.poll_once, its first statement: self.poll_count += 1
count_poll(w) == [w EXCEPT !.poll_count = @ + 1]

\* variant of poll_once: a watcher that has polled before does not launch again
poll_once_gives_up(w, q, l) ==
    LET self == count_poll(w)
        ca == check_availability(self, q)
    IN IF ca.raised
       THEN [watcher |-> self,
             out |-> Return(PollResult(FALSE, FALSE, None, Some(Str(ca.exc))), ca.calls)]
       ELSE IF ~ca.value \/ self.poll_count > 1
       THEN [watcher |-> self,
             out |-> Return(PollResult(FALSE, FALSE, None, None), ca.calls)]
       ELSE LET al == attempt_launch(self, l)
                calls == ca.calls \o al.calls
            IN IF al.raised
               THEN [watcher |-> self, out |-> Raise(al.exc, calls)]
               ELSE IF al.value = None
               THEN [watcher |-> self,
                     out |-> Return(PollResult(TRUE, FALSE, None, Some(LaunchFailedMessage)),
                                    calls)]
               ELSE LET instance_ids ==
                            DictGet(DictGet(al.value[1], "data", EmptyDict), "instance_ids", << >>)
                    IN [watcher |-> self,
                        out |-> Return(PollResult(TRUE, TRUE, Some(instance_ids), None), calls)]

\* variant of poll_once: the launched instances are taken off the quantity
poll_once_consumes_quantity(w, q, l) ==
    LET self == count_poll(w)
        ca == check_availability(self, q)
    IN IF ca.raised
       THEN [watcher |-> self,
             out |-> Return(PollResult(FALSE, FALSE, None, Some(Str(ca.exc))), ca.calls)]
       ELSE IF ~ca.value
       THEN [watcher |-> self,
             out |-> Return(PollResult(FALSE, FALSE, None, None), ca.calls)]
       ELSE LET al == attempt_launch(self, l)
                calls == ca.calls \o al.calls
            IN IF al.raised
               THEN [watcher |-> self, out |-> Raise(al.exc, calls)]
               ELSE IF al.value = None
               THEN [watcher |-> self,
                     out |-> Return(PollResult(TRUE, FALSE, None, Some(LaunchFailedMessage)),
                                    calls)]
               ELSE LET instance_ids ==
                            DictGet(DictGet(al.value[1], "data", EmptyDict), "instance_ids", << >>)
                    IN [watcher |-> [self EXCEPT !.quantity = @ - Len(instance_ids)],
                        out |-> Return(PollResult(TRUE, TRUE, Some(instance_ids), None), calls)]

\* InstanceWatcher.poll_once: the watcher after the call, what the call
\* returned or raised, and the provider calls it made
poll_once(w, q, l) ==
    LET self == count_poll(w)
        ca == check_availability(self, q)
    IN IF ca.raised
       THEN [watcher |-> self,
             out |-> Return(PollResult(FALSE, FALSE, None, Some(Str(ca.exc))), ca.calls)]
       ELSE IF ~ca.value
       THEN [watcher |-> self,
             out |-> Return(PollResult(FALSE, FALSE, None, None), ca.calls)]
       ELSE LET al == attempt_launch(self, l)
                calls == ca.calls \o al.calls
            IN IF al.raised
               THEN [watcher |-> self, out |-> Raise(al.exc, calls)]
               ELSE IF al.value = None
               THEN [watcher |-> self,
                     out |-> Return(PollResult(TRUE, FALSE, None, Some(LaunchFailedMessage)),
                                    calls)]
               ELSE LET instance_ids ==
                            DictGet(DictGet(al.value[1], "data", EmptyDict), "instance_ids", << >>)
                    IN [watcher |-> self,
                        out |-> Return(PollResult(TRUE, TRUE, Some(instance_ids), None), calls)]

\* ------------------------------------------------------------- the state
VARIABLES
    watcher,        \* the InstanceWatcher object
    result,         \* None before the first poll, then what the last poll_once returned
    escaped,        \* the exception the last poll_once let escape, or None
    lastQuery,      \* the provider's answer to the last poll's list_instance_types
    lastLaunch,     \* the provider's answer to the last poll's launch_instance, None if not called
    pollCalls,      \* the provider calls the last poll made
    invocations,    \* number of poll_once invocations so far
    launchCalls,    \* number of launch_instance invocations so far
    launchedPolls,  \* number of polls so far that returned launched = true
    neverListed,    \* every availability query so far succeeded without listing the target
    allUnavailable  \* every poll so far returned the Unavailable outcome

vars == <<watcher, result, escaped, lastQuery, lastLaunch, pollCalls,
          invocations, launchCalls, launchedPolls, neverListed, allUnavailable>>

\* the watch session of the CLI (instances_watch)
VARIABLES
    pc,             \* where instances_watch is: "direct" when poll_once is called directly
    clock,          \* time.time(), in seconds
    start_time,     \* time.time() when the session started
    timeout,        \* --timeout, in minutes
    interval,       \* --interval, in seconds
    remaining,      \* the countdown's loop variable: the next value of range(interval, 0, -1)
    wake,           \* when the running time.sleep(1) ends
    exit_code,      \* None, or the code of the typer.Exit raised
    reported,       \* None, or the poll count printed by the KeyboardInterrupt handler
    started,        \* number of poll_once calls the loop has started
    lastPollStart   \* None, or the time the last poll_once call started

loopVars == <<pc, clock, start_time, timeout, interval, remaining, wake,
              exit_code, reported, started, lastPollStart>>

allVars == <<vars, loopVars>>

\* the four outcome variants, read off a PollResult
IsUnavailable(r) ==
    ~r.available /\ ~r.launched /\ r.instance_ids = None /\ r.error = None
IsLaunchedSucceeded(r) ==
    r.available /\ r.launched /\ r.instance_ids # None /\ r.error = None
IsLaunchFailed(r) ==
    r.available /\ ~r.launched /\ r.error # None
IsQueryFailed(r) ==
    ~r.available /\ ~r.launched /\ r.error # None

\* the target (type, region) is listed in a successful availability answer
Listed(w, q) ==
    /\ ~q.raises
    /\ "data" \in DOMAIN q.response
    /\ w.instance_type \in DOMAIN q.response.data
    /\ "regions_with_capacity_available" \in DOMAIN q.response.data[w.instance_type]
    /\ \E i \in DOMAIN q.response.data[w.instance_type].regions_with_capacity_available :
           q.response.data[w.instance_type].regions_with_capacity_available[i].name = w.region

IsLaunch(c) == c.op = "launch_instance"
LaunchCount(calls) == Cardinality({i \in DOMAIN calls : IsLaunch(calls[i])})

Init ==
    /\ \E t \in InstanceTypes, r \in Regions, k \in SshKeyLists,
          n \in Quantities, o \in OptionalArgs :
           watcher = InstanceWatcher(ApiClient, t, r, k, o[1], n, o[2])
    /\ result = None
    /\ escaped = None
    /\ lastQuery = None
    /\ lastLaunch = None
    /\ pollCalls = << >>
    /\ invocations = 0
    /\ launchCalls = 0
    /\ launchedPolls = 0
    /\ neverListed = TRUE
    /\ allUnavailable = TRUE

\* the effect of one call of watcher.poll_once() with the provider answering
\* q and, if asked, l
PollStep(q, l) ==
    LET p == poll_once(watcher, q, l)
        launched == LaunchCount(p.out.calls) > 0
    IN /\ watcher' = p.watcher
       /\ result' = IF p.out.raised THEN None ELSE Some(p.out.value)
       /\ escaped' = IF p.out.raised THEN Some(p.out.exc) ELSE None
       /\ lastQuery' = Some(q)
       /\ lastLaunch' = IF launched THEN Some(l) ELSE None
       /\ pollCalls' = p.out.calls
       /\ invocations' = invocations + 1
       /\ launchCalls' = launchCalls + LaunchCount(p.out.calls)
       /\ launchedPolls' =
              launchedPolls + (IF ~p.out.raised /\ p.out.value.launched THEN 1 ELSE 0)
       /\ neverListed' = (neverListed /\ ~q.raises /\ ~Listed(watcher, q))
       /\ allUnavailable' =
              (allUnavailable /\ ~p.out.raised /\ IsUnavailable(p.out.value))

\* one call of watcher.poll_once() made directly by a caller
PollOnce(q, l) ==
    /\ invocations < MaxPolls
    /\ PollStep(q, l)

\* The provider answers a launch request only in a poll in which it reported
\* capacity for the target; a launch request it did not expect is answered
\* by UnexpectedLaunchAnswer.
UnexpectedLaunchAnswer ==
    [raises |-> FALSE, exc |-> None, response |-> [data |-> [instance_ids |-> <<AllIds[1]>>]]]
LaunchAnswersFor(w, q) == IF Listed(w, q) THEN LaunchAnswers ELSE {UnexpectedLaunchAnswer}

Next == \E q \in QueryAnswers : \E l \in LaunchAnswersFor(watcher, q) : PollOnce(q, l)

\* what the last poll did
Polled == invocations > 0
QueryRaised == lastQuery # None /\ lastQuery[1].raises
LaunchCalled == LaunchCount(pollCalls) > 0
LaunchRaised == lastLaunch # None /\ lastLaunch[1].raises
Returned == result # None
\* the identifiers a launch response carries
ResponseIds(response) == DictGet(DictGet(response, "data", EmptyDict), "instance_ids", << >>)

\* poll_once called directly: no watch session runs
NoSession ==
    /\ pc = "direct"
    /\ clock = 0
    /\ start_time = 0
    /\ timeout = 0
    /\ interval = 0
    /\ remaining = 0
    /\ wake = 0
    /\ exit_code = None
    /\ reported = None
    /\ started = 0
    /\ lastPollStart = None

InitPoll == Init /\ NoSession
NextPoll == Next /\ UNCHANGED loopVars

Spec == InitPoll /\ [][NextPoll]_allVars

\* ------------------------------------------------- instances_watch (main.py)
SecondsPerMinute == 60
Intervals == {25, 60, 90}

\* the watcher the command builds from its options
CliWatcher == InstanceWatcher(ApiClient, "gpu_1x_a10", "us-west-1", <<"key-a">>, None, 1, None)

\* the provider's answers during a session: an error, or the target type
\* with one region listed
WatchQueryAnswers ==
    {q \in QueryAnswers :
        IF q.raises THEN q.exc.msg = "timeout"
        ELSE /\ "data" \in DOMAIN q.response
             /\ DOMAIN q.response.data = {CliWatcher.instance_type}
             /\ "regions_with_capacity_available" \in DOMAIN q.response.data[CliWatcher.instance_type]
             /\ Len(q.response.data[CliWatcher.instance_type].regions_with_capacity_available) = 1}

WatchLaunchAnswers ==
    {l \in LaunchAnswers :
        IF l.raises THEN l.exc.msg = "capacity race"
        ELSE "data" \in DOMAIN l.response /\ Len(ResponseIds(l.response)) = 1}

WatchLaunchAnswersFor(w, q) ==
    IF Listed(w, q) THEN WatchLaunchAnswers ELSE {UnexpectedLaunchAnswer}

\* timeout_seconds = timeout * 60
timeout_seconds(t) == t * SecondsPerMinute

\* variant of timed_out: the comparison is strict
timed_out_strict(elapsed, limit) == elapsed > limit

\* if elapsed >= timeout_seconds
timed_out(elapsed, limit) == elapsed >= limit

\* variant of loop_top: a reached timeout does not raise typer.Exit
loop_top_no_exit(elapsed, limit) == "polling"

\* the head of the while loop: exit on timeout, poll otherwise
loop_top(elapsed, limit) == IF timed_out(elapsed, limit) THEN "timed_out" ELSE "polling"

\* truth value of an Optional[str] in an if statement
Truthy(opt) == opt # None /\ opt[1] # ""

\* variant of after_poll: a launched result does not return
after_poll_no_return(r) == "countdown"

\* variant of after_poll: a result with an error ends the session
after_poll_error_aborts(r) ==
    IF Truthy(r.error) THEN "timed_out"
    ELSE IF r.launched THEN "launched"
    ELSE "countdown"

\* the if/elif/else on the result of poll_once: return when launched, go on
\* to the countdown otherwise
after_poll(r) ==
    IF Truthy(r.error) THEN "countdown"
    ELSE IF r.launched THEN "launched"
    ELSE "countdown"

\* variant of countdown_start: the countdown is one second short
countdown_start_short(i) == i - 1

\* first value of range(interval, 0, -1)
countdown_start(i) == i

Terminal == {"launched", "timed_out", "cancelled", "crashed"}

InitWatch ==
    /\ Init
    /\ watcher = CliWatcher
    /\ timeout \in 0..MaxTimeout
    /\ interval \in Intervals
    /\ clock = 0
    /\ start_time = 0
    /\ pc = "top"
    /\ remaining = 0
    /\ wake = 0
    /\ exit_code = None
    /\ reported = None
    /\ started = 0
    /\ lastPollStart = None

\* while True: the elapsed-time check, then the call of poll_once begins
LoopTop ==
    /\ pc = "top"
    /\ LET elapsed == clock - start_time
           to == loop_top(elapsed, timeout_seconds(timeout))
       IN IF to = "timed_out"
          THEN /\ pc' = "timed_out"
               /\ exit_code' = Some(1)
               /\ UNCHANGED <<started, lastPollStart>>
          ELSE /\ started < MaxWatchPolls
               /\ pc' = "polling"
               /\ started' = started + 1
               /\ lastPollStart' = Some(clock)
               /\ UNCHANGED exit_code
    /\ UNCHANGED <<vars, clock, start_time, timeout, interval, remaining, wake, reported>>

\* poll_once returns (or raises) and the loop looks at the result
WatchPoll(q, l) ==
    /\ pc = "polling"
    /\ PollStep(q, l)
    /\ LET p == poll_once(watcher, q, l)
           to == IF p.out.raised THEN "crashed" ELSE after_poll(p.out.value)
       IN /\ pc' = to
          /\ remaining' = IF to = "countdown" THEN countdown_start(interval) ELSE remaining
    /\ UNCHANGED <<clock, start_time, timeout, interval, wake, exit_code, reported,
                   started, lastPollStart>>

\* one round of the countdown: the range is exhausted, the timeout breaks
\* it, or time.sleep(1) begins
Countdown ==
    /\ pc = "countdown"
    /\ IF remaining <= 0
       THEN pc' = "top" /\ UNCHANGED wake
       ELSE IF timed_out(clock - start_time, timeout_seconds(timeout))
       THEN pc' = "top" /\ UNCHANGED wake
       ELSE pc' = "sleeping" /\ wake' = clock + 1
    /\ UNCHANGED <<vars, clock, start_time, timeout, interval, remaining, exit_code,
                   reported, started, lastPollStart>>

\* time.sleep(1) returns
SleepDone ==
    /\ pc = "sleeping"
    /\ clock >= wake
    /\ pc' = "countdown"
    /\ remaining' = remaining - 1
    /\ UNCHANGED <<vars, clock, start_time, timeout, interval, wake, exit_code,
                   reported, started, lastPollStart>>

\* a second passes, during a poll_once call or during time.sleep(1)
Tick ==
    /\ \/ pc = "polling" /\ clock - lastPollStart[1] < MaxPollSeconds
       \/ pc = "sleeping" /\ clock < wake
    /\ clock' = clock + 1
    /\ UNCHANGED <<vars, pc, start_time, timeout, interval, remaining, wake, exit_code,
                   reported, started, lastPollStart>>

\* except KeyboardInterrupt: print the poll count, raise typer.Exit(0)
Cancelled(w) ==
    /\ pc' = "cancelled"
    /\ reported' = Some(w.poll_count)
    /\ exit_code' = Some(0)
    /\ UNCHANGED <<clock, start_time, timeout, interval, remaining, wake, started,
                   lastPollStart>>

\* KeyboardInterrupt between two polls
Interrupt ==
    /\ pc \in {"top", "countdown", "sleeping"}
    /\ Cancelled(watcher)
    /\ UNCHANGED vars

\* KeyboardInterrupt inside poll_once, while the answer to
\* list_instance_types (q = None) or to launch_instance (after the answer q)
\* is awaited
InterruptPoll(q) ==
    /\ pc = "polling"
    /\ q # None => (~q[1].raises /\ has_capacity(watcher, q[1].response))
    /\ watcher' = count_poll(watcher)
    /\ Cancelled(count_poll(watcher))
    /\ invocations' = invocations + 1
    /\ pollCalls' = IF q = None THEN <<ListCall>>
                    ELSE <<ListCall, LaunchCall(count_poll(watcher))>>
    /\ launchCalls' = launchCalls + LaunchCount(pollCalls')
    /\ lastQuery' = IF q = None THEN lastQuery ELSE q
    /\ UNCHANGED <<result, escaped, lastLaunch, launchedPolls, neverListed, allUnavailable>>

PollReturns == \E q \in WatchQueryAnswers : \E l \in WatchLaunchAnswersFor(watcher, q) : WatchPoll(q, l)
Interrupted == Interrupt \/ \E q \in {None} \cup {Some(a) : a \in WatchQueryAnswers} : InterruptPoll(q)

NextWatch ==
    \/ LoopTop
    \/ PollReturns
    \/ Countdown
    \/ SleepDone
    \/ Tick
    \/ Interrupted

SpecWatch == InitWatch /\ [][NextWatch]_allVars

\* the session with the clock advancing, every poll_once call returning and
\* every sleep ending; the interrupt is the user's and is not forced
SpecWatchFair ==
    /\ SpecWatch
    /\ WF_allVars(LoopTop)
    /\ WF_allVars(PollReturns)
    /\ WF_allVars(Countdown)
    /\ WF_allVars(SleepDone)
    /\ WF_allVars(Tick)

\* ------------------------------------------------------------ properties

\* C1: poll_count starts at 0 and after N calls of poll_once equals N,
\* whatever the provider answered in those calls.
C1_PollCountEqualsCalls == watcher.poll_count = invocations

C1_Witness ==
    /\ invocations = MaxPolls
    /\ watcher.poll_count = MaxPolls
    /\ Returned /\ IsQueryFailed(result[1])
    /\ launchCalls > 0

\* C2: a poll whose availability query raised a provider error with message
\* m returns error = m, available = false, launched = false, and calls the
\* provider's launch operation zero times.
C2_QueryFailureIsolated ==
    QueryRaised =>
        /\ Returned
        /\ result[1].error = Some(lastQuery[1].exc.msg)
        /\ ~result[1].available
        /\ ~result[1].launched
        /\ LaunchCount(pollCalls) = 0
        /\ lastLaunch = None

C2_Witness ==
    /\ QueryRaised
    /\ lastQuery[1].exc.msg = "timeout"
    /\ Returned /\ result[1].error = Some("timeout")

\* C3: a poll returns a launch outcome (LaunchedSucceeded or LaunchFailed),
\* or calls the provider's launch operation, only if its availability query
\* succeeded and listed the target region for the target instance type.
C3_NoLaunchWithoutAvailability ==
    Polled =>
        ((\/ LaunchCalled
          \/ lastLaunch # None
          \/ (Returned /\ (IsLaunchedSucceeded(result[1]) \/ IsLaunchFailed(result[1]))))
         => Listed(watcher, lastQuery[1]))

C3_Witness ==
    /\ Polled /\ LaunchCalled /\ Listed(watcher, lastQuery[1])
    /\ Returned /\ IsLaunchedSucceeded(result[1])

\* C4 (as claimed): when the launch call returns without raising but with no
\* instance identifiers the poll returns LaunchFailed; every result with
\* launched = true carries a non-empty instance_ids list.
C4_EmptyLaunchIsFailure ==
    /\ (lastLaunch # None /\ ~lastLaunch[1].raises /\ ResponseIds(lastLaunch[1].response) = << >>)
           => (Returned /\ IsLaunchFailed(result[1]))
    /\ (Returned /\ result[1].launched)
           => (result[1].instance_ids # None /\ Len(result[1].instance_ids[1]) > 0)

\* C5 (as claimed): when the launch call raises a provider error with
\* message m the poll returns LaunchFailed whose reason is m.
C5_LaunchErrorReasonKept ==
    LaunchRaised =>
        /\ Returned
        /\ IsLaunchFailed(result[1])
        /\ result[1].error = Some(Str(lastLaunch[1].exc))

\* C6 (as claimed): no watcher exists whose spec has an empty SSH-key list
\* or a quantity below 1.
C6_WatcherSpecValid ==
    /\ Len(watcher.ssh_key_names) > 0
    /\ watcher.quantity >= 1

\* C7: every result of poll_once is exactly one of Unavailable,
\* LaunchedSucceeded, LaunchFailed and QueryFailed, and launched = true
\* never comes with an error.
VariantsOf(r) ==
    {v \in {"Unavailable", "LaunchedSucceeded", "LaunchFailed", "QueryFailed"} :
        \/ v = "Unavailable" /\ IsUnavailable(r)
        \/ v = "LaunchedSucceeded" /\ IsLaunchedSucceeded(r)
        \/ v = "LaunchFailed" /\ IsLaunchFailed(r)
        \/ v = "QueryFailed" /\ IsQueryFailed(r)}

C8_NeverAvailableAndError ==
    Returned => ~(result[1].available /\ result[1].error # None)

\* C8 (amended): available = true and error set hold together in exactly
\* the polls whose launch call raised a provider error, and then launched
\* = false; in every other result they do not hold together.
C8_AvailableAndErrorOnlyOnLaunchError ==
    Polled =>
        /\ Returned
        /\ (result[1].available /\ result[1].error # None) <=> LaunchRaised
        /\ LaunchRaised => ~result[1].launched

C8_Witness ==
    /\ Returned /\ result[1].available /\ result[1].error # None
    /\ LaunchRaised /\ ~result[1].launched

\* C9: as long as every availability query succeeded without listing the
\* target, every outcome was Unavailable, the provider's launch operation
\* was never called, and poll_count equals the number of polls.
C9_IdempotentUnavailability ==
    neverListed =>
        /\ allUnavailable
        /\ launchCalls = 0
        /\ watcher.poll_count = invocations
        /\ Polled => (Returned /\ IsUnavailable(result[1]) /\ ~LaunchCalled)

C9_Witness ==
    /\ neverListed /\ invocations = MaxPolls
    /\ allUnavailable /\ launchCalls = 0 /\ watcher.poll_count = MaxPolls
    /\ "data" \in DOMAIN lastQuery[1].response
    /\ watcher.instance_type \in DOMAIN lastQuery[1].response.data

\* C10: no provider error escapes poll_once: a poll whose availability
\* query or launch call raised returns QueryFailed or LaunchFailed, and
\* poll_once can be called again afterwards.
C10_ProviderErrorsContained ==
    /\ escaped = None
    /\ (QueryRaised \/ LaunchRaised) =>
           /\ Returned
           /\ (IsQueryFailed(result[1]) \/ IsLaunchFailed(result[1]))
           /\ result[1].error # None
           /\ (invocations < MaxPolls => ENABLED Next)

C10_Witness ==
    /\ LaunchRaised /\ escaped = None
    /\ Returned /\ IsLaunchFailed(result[1])
    /\ invocations > 1 /\ ~allUnavailable /\ neverListed = FALSE

\* C11: a poll calls the provider's availability query exactly once, first,
\* and its launch operation at most once: once when the query succeeded and
\* listed the target, never otherwise; the launch call carries the watcher's
\* region, instance type, SSH keys, file systems, quantity and name.
ListCallCount(calls) == Cardinality({i \in DOMAIN calls : calls[i].op = "list_instance_types"})

C11_NoHiddenRetries ==
    Polled =>
        /\ ListCallCount(pollCalls) = 1
        /\ pollCalls[1].op = "list_instance_types"
        /\ LaunchCount(pollCalls) = (IF Listed(watcher, lastQuery[1]) THEN 1 ELSE 0)
        /\ Len(pollCalls) = 1 + LaunchCount(pollCalls)
        /\ \A i \in DOMAIN pollCalls :
               IsLaunch(pollCalls[i]) =>
                   /\ pollCalls[i].args.region_name = watcher.region
                   /\ pollCalls[i].args.instance_type_name = watcher.instance_type
                   /\ pollCalls[i].args.ssh_key_names = watcher.ssh_key_names
                   /\ pollCalls[i].args.file_system_names = watcher.file_system_names
                   /\ pollCalls[i].args.quantity = watcher.quantity
                   /\ pollCalls[i].args.name = watcher.instance_name

C11_Witness ==
    /\ Polled /\ LaunchRaised
    /\ Len(pollCalls) = 2 /\ IsLaunch(pollCalls[2])
    /\ pollCalls[2].args.file_system_names # None
    /\ pollCalls[2].args.name # None

\* C13: what a poll returns and which provider calls it makes are those of a
\* newly built watcher with the same spec given the same provider answers,
\* whatever poll_count is and whatever earlier polls returned (an earlier
\* LaunchedSucceeded included).
FreshWatcher(w) ==
    InstanceWatcher(w.api, w.instance_type, w.region, w.ssh_key_names,
                    w.file_system_names, w.quantity, w.instance_name)

C13_OutcomeIndependentOfHistory ==
    Polled =>
        LET l == IF lastLaunch # None THEN lastLaunch[1] ELSE UnexpectedLaunchAnswer
            p == poll_once(FreshWatcher(watcher), lastQuery[1], l)
        IN /\ Returned
           /\ ~p.out.raised
           /\ result[1] = p.out.value
           /\ pollCalls = p.out.calls

C13_Witness ==
    /\ invocations = MaxPolls /\ watcher.poll_count > 1
    /\ launchedPolls = MaxPolls
    /\ Returned /\ IsLaunchedSucceeded(result[1])

\* C14: when the availability query succeeds, the poll treats the target as
\* available exactly if the target type is in the provider's mapping and the
\* target region is among its regions with capacity; otherwise it returns
\* Unavailable (not QueryFailed) and makes no launch call.
C14_AvailableIffListed ==
    (Polled /\ ~QueryRaised) =>
        /\ Returned
        /\ result[1].available <=> Listed(watcher, lastQuery[1])
        /\ ~Listed(watcher, lastQuery[1]) =>
               (IsUnavailable(result[1]) /\ ~IsQueryFailed(result[1]) /\ ~LaunchCalled)

C14_Witness ==
    /\ Polled /\ ~QueryRaised /\ Returned
    /\ "data" \in DOMAIN lastQuery[1].response
    /\ watcher.instance_type \in DOMAIN lastQuery[1].response.data
    /\ "regions_with_capacity_available" \in DOMAIN lastQuery[1].response.data[watcher.instance_type]
    /\ Len(lastQuery[1].response.data[watcher.instance_type].regions_with_capacity_available) = 1
    /\ ~Listed(watcher, lastQuery[1])
    /\ IsUnavailable(result[1]) /\ ~LaunchCalled

\* C19: a poll changes no attribute of the watcher but poll_count: api,
\* instance_type, region, ssh_key_names, file_system_names, quantity and
\* instance_name keep their values, and the watcher gains no attribute
\* holding the returned result.
SpecFields ==
    {"api", "instance_type", "region", "ssh_key_names", "file_system_names",
     "quantity", "instance_name"}

C19_PollChangesOnlyPollCount ==
    [][/\ DOMAIN watcher' = DOMAIN watcher
       /\ DOMAIN watcher = SpecFields \cup {"poll_count"}
       /\ \A f \in SpecFields : watcher'[f] = watcher[f]]_vars

C19_Witness ==
    /\ invocations = MaxPolls /\ launchedPolls > 0
    /\ watcher.poll_count = MaxPolls
    /\ watcher.quantity > 0 /\ watcher.file_system_names # None
    /\ Returned /\ IsLaunchFailed(result[1])

\* -------------------------------------------- properties of a watch session
Elapsed == clock - start_time
TimeoutSeconds == timeout * 60
\* ceil(a / b) for b >= 1
CeilDiv(a, b) == (a + b - 1) \div b

\* C12: in a watch session a launched poll is terminal: the session is over
\* as soon as a poll returned launched, nothing happens afterwards (no
\* poll, no query, no launch call), and so at most one poll of a session
\* returns launched.
C12_LaunchedIsTerminal ==
    /\ [](launchedPolls <= 1)
    /\ [](launchedPolls = 1 <=> pc = "launched")
    /\ [](pc = "launched" => (Returned /\ result[1].launched /\ exit_code = None))
    /\ [][pc # "launched"]_allVars

C12_Witness ==
    /\ pc = "launched" /\ launchedPolls = 1
    /\ started > 1 /\ launchCalls > 1
    /\ Elapsed < TimeoutSeconds

\* C15: the loop starts poll_once only when the elapsed time it has just
\* read is below timeout * 60 seconds; a reached timeout ends the session
\* with exit code 1 without polling, and with timeout = 0 no poll is made.
C15_NoPollAfterTimeout ==
    /\ [][started' > started => (pc = "top" /\ pc' = "polling" /\ Elapsed < TimeoutSeconds)]_allVars
    /\ [][(pc = "top" /\ Elapsed >= TimeoutSeconds /\ pc' # "cancelled")
             => (pc' = "timed_out" /\ exit_code' = Some(1)
                 /\ started' = started /\ invocations' = invocations)]_allVars
    /\ [](pc = "timed_out" => (exit_code = Some(1) /\ Elapsed >= TimeoutSeconds))
    /\ [](invocations <= started)
    /\ [](timeout = 0 => (started = 0 /\ invocations = 0 /\ pollCalls = << >>))

C15_Witness ==
    /\ pc = "timed_out" /\ exit_code = Some(1)
    /\ timeout > 0 /\ started > 1
    /\ Elapsed = TimeoutSeconds

\* C16: every session ends, as Launched (normal return), TimedOut (exit code
\* 1) or Cancelled (exit code 0) and in one of them only; a session in which
\* no poll is launched and that is not cancelled ends as TimedOut.
C16_SessionEnds ==
    /\ <>[](pc \in {"launched", "timed_out", "cancelled"})
    /\ []((pc = "launched" => exit_code = None)
          /\ (pc = "timed_out" => exit_code = Some(1))
          /\ (pc = "cancelled" => exit_code = Some(0))
          /\ (exit_code # None => pc \in {"timed_out", "cancelled"}))
    /\ ([](launchedPolls = 0 /\ pc # "cancelled") => <>(pc = "timed_out"))

C16_Witness ==
    /\ pc = "timed_out" /\ launchedPolls = 0
    /\ started = CeilDiv(TimeoutSeconds, interval) /\ started > 2
    /\ launchCalls > 0

\* C17: a result with an error (QueryFailed or LaunchFailed) does not end
\* the session: the loop goes on to the countdown of interval seconds, and
\* polls again afterwards, so one session may call the launch operation
\* several times.
C17_ErrorsDoNotEndSession ==
    /\ [][(pc = "polling" /\ pc' \notin {"polling", "cancelled"}
            /\ result' # None /\ result'[1].error # None)
             => (/\ IsQueryFailed(result'[1]) \/ IsLaunchFailed(result'[1])
                 /\ pc' = "countdown"
                 /\ remaining' = interval
                 /\ exit_code' = None)]_allVars
    /\ [][(pc = "countdown" /\ pc' # "cancelled") => pc' \in {"sleeping", "top"}]_allVars

C17_Witness ==
    /\ pc = "polling" /\ started > 2
    /\ launchCalls > 1 /\ launchedPolls = 0
    /\ Returned /\ IsLaunchFailed(result[1])

\* C18: a KeyboardInterrupt at any point of the loop ends the session with
\* exit code 0, nothing happens afterwards, and the number of polls it
\* reports is the number of poll_once calls the session started.
C18_CancelReportsStartedPolls ==
    /\ [](pc \in {"top", "polling", "countdown", "sleeping"} => ENABLED Interrupted)
    /\ [](pc = "cancelled" =>
             (/\ exit_code = Some(0)
              /\ reported = Some(started)
              /\ watcher.poll_count = started))
    /\ [][pc # "cancelled"]_allVars

C18_Witness ==
    /\ pc = "cancelled" /\ exit_code = Some(0)
    /\ reported = Some(started) /\ started > 1
    /\ invocations = started
    /\ Len(pollCalls) = 1
    /\ (result = None \/ ~IsLaunchedSucceeded(result[1]))

\* C20: with interval >= 1, consecutive polls of a session start at least
\* interval seconds apart, and the session makes at most ceil(T / interval)
\* polls, availability queries and launch attempts, T = timeout * 60.
C20_PollsSpacedByInterval ==
    /\ [][(started' > started /\ lastPollStart # None)
             => lastPollStart'[1] - lastPollStart[1] >= interval]_allVars
    /\ [](interval >= 1 =>
             (/\ started <= CeilDiv(TimeoutSeconds, interval)
              /\ invocations <= CeilDiv(TimeoutSeconds, interval)
              /\ launchCalls <= CeilDiv(TimeoutSeconds, interval)))

C20_Witness ==
    /\ interval >= 1 /\ started = CeilDiv(TimeoutSeconds, interval) /\ started > 2
    /\ lastPollStart # None /\ lastPollStart[1] = (started - 1) * interval
    /\ launchCalls = started

====
